---- MODULE Spec2Model ----
(***************************************************************************)
(* Model of backend/app.py: a consent-gated posture event log over SQLite. *)
(*                                                                         *)
(* The persistent store is the pair (settings, events) plus the flag       *)
(* `schema` telling whether init_db has created the tables.  Every         *)
(* `with db_conn()` block of the source is one transaction and is modelled *)
(* as one atomic step; a handler that opens two connections (track,        *)
(* set_consent_route, summary) is two steps, and between them it sits in   *)
(* `inflight` with the local values it carries over.  Handlers are served  *)
(* concurrently, so the steps of different requests interleave freely.     *)
(***************************************************************************)
EXTENDS Integers, Sequences, FiniteSets, Bags, TLC

VARIABLES
    schema,     \* TRUE once the tables events/settings exist
    started,    \* TRUE once _startup has completed: requests are served
    settings,   \* table settings: function from the keys present to values
    events,     \* table events: sequence of rows [id, ts, label], by id
    now,        \* int(time.time())
    inflight,   \* bag of handlers suspended between their two transactions
    conns,      \* connections opened by db_conn and not closed
    reply,      \* the response body sent by the latest step, or NoReply
    lastSet     \* history: value written by the latest set_consent, or "none"

vars == <<schema, started, settings, events, now, inflight, conns, reply, lastSet>>

----------------------------------------------------------------------------
(* Bounds of the model *)

MaxInFlight == 2    \* handlers suspended between two transactions
MaxEvents == 4      \* rows the events table may hold
MaxTicks == 1       \* clock instants after the first
MaxStored == 2      \* rows of an events table found at startup
MaxWindowRows == 3  \* rows of an events table laid around the window bounds

----------------------------------------------------------------------------
(* Values *)

DAY == 24 * 3600
WEEK == 7 * 24 * 3600

\* the clock is observed at instants more than a day apart, so that an
\* event of the previous instant is outside the daily window
ClockStep == DAY + 1
Instants == {k * ClockStep : k \in 0..MaxTicks}

\* variant: a third label let into the closed set
KnownLabelsWidened == {"good", "slouched", "sitting"}

\* the closed set of labels: ("good", "slouched")
KnownLabels == {"good", "slouched"}
RequestLabels == {"good", "slouched", "sitting"}
Periods == {"daily", "weekly"}
RequestPeriods == {"daily", "weekly", "monthly"}
NoParam == "(absent)"

NoSettings == [k \in {} |-> "false"]
NoReply == [op |-> "none"]

----------------------------------------------------------------------------
(* Pure functions of the source *)

\* the table a db_conn scope leaves behind: `after`, what its body wrote, is
\* committed only when the body ends without an error (ok)
db_conn(before, after, ok) == IF ok THEN after ELSE before

\* connections a db_conn scope leaves open: finally: conn.close()
db_conn_left_open(ok) == 0

\* variant: the boolean written as Python prints it
bool_text_str(value) == IF value THEN "True" ELSE "False"

\* "true" if value else "false"
bool_text(value) == IF value THEN "true" ELSE "false"

\* variant: INSERT OR REPLACE, which overwrites the row it finds
insert_or_replace(s, k, v) ==
    [x \in DOMAIN s \cup {k} |-> IF x = k THEN v ELSE s[x]]

\* INSERT OR IGNORE INTO settings(key, value) VALUES(k, v)
insert_or_ignore(s, k, v) ==
    IF k \in DOMAIN s THEN s
    ELSE [x \in DOMAIN s \cup {k} |-> IF x = k THEN v ELSE s[x]]

\* variant: any row found counts as consent
get_consent_row_found(s) ==
    "consent" \in DOMAIN s

\* variant: a missing row read as consent
get_consent_absent_true(s) ==
    IF "consent" \in DOMAIN s THEN s["consent"] = "true" ELSE TRUE

\* SELECT value FROM settings WHERE key='consent'; row[0] == 'true' if row else False
get_consent(s) ==
    IF "consent" \in DOMAIN s THEN s["consent"] = "true" ELSE FALSE

\* variant: a plain insert that leaves an existing row alone
set_consent_insert_only(s, value) ==
    IF "consent" \in DOMAIN s THEN s
    ELSE [x \in DOMAIN s \cup {"consent"} |->
            IF x = "consent" THEN bool_text(value) ELSE s[x]]

\* INSERT ... ON CONFLICT(key) DO UPDATE SET value=excluded.value
set_consent(s, value) ==
    [x \in DOMAIN s \cup {"consent"} |->
        IF x = "consent" THEN bool_text(value) ELSE s[x]]

\* variant: the largest rowid in the table handed out again
next_id_reused(ev) ==
    IF Len(ev) = 0 THEN 1
    ELSE CHOOSE m \in {ev[i].id : i \in 1..Len(ev)} :
             \A i \in 1..Len(ev) : ev[i].id <= m

\* INTEGER PRIMARY KEY: one more than the largest rowid in the table
next_id(ev) ==
    IF Len(ev) = 0 THEN 1
    ELSE 1 + CHOOSE m \in {ev[i].id : i \in 1..Len(ev)} :
                 \A i \in 1..Len(ev) : ev[i].id <= m

\* variant: the row is stamped with the epoch instead of the current time
store_event_stale_ts(ev, label, allow, t) ==
    IF ~allow THEN ev
    ELSE IF label \notin KnownLabels THEN ev
    ELSE Append(ev, [id |-> next_id(ev), ts |-> 0, label |-> label])

store_event_if_allowed(ev, label, allow, t) ==
    IF ~allow THEN ev
    ELSE IF label \notin KnownLabels THEN ev
    ELSE Append(ev, [id |-> next_id(ev), ts |-> t, label |-> label])

\* variant: the consent check of track left out
track_admits_without_consent(consent, label) ==
    label \in KnownLabels

\* variant: the label check of track left out
track_admits_any_label(consent, label) ==
    consent

\* the two early returns of track, before store_event_if_allowed is called
track_admits(consent, label) ==
    IF ~consent THEN FALSE
    ELSE IF label \notin KnownLabels THEN FALSE
    ELSE TRUE

\* period: str = Query(default="daily", ...)
query_period(raw) == IF raw = NoParam THEN "daily" ELSE raw

\* variant: the Query pattern left out
period_valid_any(period) == TRUE

\* Query(pattern="^(daily|weekly)$")
period_valid(period) == period \in {"daily", "weekly"}

window_start(t, period) ==
    IF period = "weekly" THEN t - 7 * 24 * 3600 ELSE t - 24 * 3600

\* variant: WHERE ts > ?, a window that leaves out its first second
select_counts_strict(ev, since) ==
    LET rows == {i \in 1..Len(ev) : ev[i].ts > since}
        labels == {ev[i].label : i \in rows}
    IN  [l \in labels |-> Cardinality({i \in rows : ev[i].label = l})]

\* SELECT label, COUNT(*) FROM events WHERE ts >= ? GROUP BY label
select_counts(ev, since) ==
    LET rows == {i \in 1..Len(ev) : ev[i].ts >= since}
        labels == {ev[i].label : i \in rows}
    IN  [l \in labels |-> Cardinality({i \in rows : ev[i].label = l})]

RECURSIVE sum_values(_)
sum_values(counts) ==
    IF DOMAIN counts = {} THEN 0
    ELSE LET l == CHOOSE x \in DOMAIN counts : TRUE
         IN  counts[l] + sum_values([x \in DOMAIN counts \ {l} |-> counts[x]])

counts_get(counts, l, default) ==
    IF l \in DOMAIN counts THEN counts[l] ELSE default

RECURSIVE gcd(_, _)
gcd(a, b) == IF b = 0 THEN a ELSE gcd(b, a % b)

\* variant: the operands of the division exchanged
true_div_inverted(n, d) == <<d \div gcd(d, n), n \div gcd(d, n)>>

\* the float n / d, as the fraction in lowest terms; 0.0 is <<0, 1>>
true_div(n, d) == <<n \div gcd(n, d), d \div gcd(n, d)>>

\* variant: the ratio taken of the 'slouched' count
aggregate_summary_slouched(ev, t, period) ==
    LET since == window_start(t, period)
        counts == select_counts(ev, since)
        total == sum_values(counts)
    IN  IF total = 0 THEN <<<<0, 1>>, 0>>
        ELSE <<true_div(counts_get(counts, "slouched", 0), total), total>>

\* the <<upright_ratio, total>> pair returned by aggregate_summary
aggregate_summary(ev, t, period) ==
    LET since == window_start(t, period)
        counts == select_counts(ev, since)
        total == sum_values(counts)
    IN  IF total = 0 THEN <<<<0, 1>>, 0>>
        ELSE <<true_div(counts_get(counts, "good", 0), total), total>>

summary_body(result) ==
    [uprightRatio |-> result[1], totalEvents |-> result[2]]

----------------------------------------------------------------------------
(* Initial state: a database file that does not exist yet *)

Init ==
    /\ schema = FALSE
    /\ started = FALSE
    /\ settings = NoSettings
    /\ events = <<>>
    /\ now = 0
    /\ inflight = EmptyBag
    /\ conns = 0
    /\ reply = NoReply
    /\ lastSet = "none"

----------------------------------------------------------------------------
(* Steps *)

Suspend(c) == inflight' = inflight (+) SetToBag({c})
Resume(c) == inflight' = inflight (-) SetToBag({c})
Suspended(c) == BagIn(c, inflight)
CanSuspend == BagCardinality(inflight) < MaxInFlight

\* one `with db_conn() as conn:` block, entered and left within the step
Scope(ok) == conns' = conns + db_conn_left_open(ok)

\* _startup: runs at every process start, on whatever the file holds
init_db ==
    /\ schema' = TRUE
    /\ started' = TRUE
    /\ settings' = db_conn(settings, insert_or_ignore(settings, "consent", "false"), TRUE)
    /\ Scope(TRUE)
    /\ reply' = [op |-> "startup"]
    /\ UNCHANGED <<events, now, inflight, lastSet>>

health ==
    /\ started
    /\ reply' = [op |-> "health", body |-> [ok |-> TRUE]]
    /\ UNCHANGED <<schema, started, settings, events, now, inflight, conns, lastSet>>

get_consent_route ==
    /\ started
    /\ Scope(TRUE)
    /\ reply' = [op |-> "get_consent", body |-> [consent |-> get_consent(settings)]]
    /\ UNCHANGED <<schema, started, settings, events, now, inflight, lastSet>>

\* set_consent_route, first transaction: set_consent(body.consent)
set_consent_route_write(v) ==
    /\ started
    /\ CanSuspend
    /\ settings' = db_conn(settings, set_consent(settings, v), TRUE)
    /\ Scope(TRUE)
    /\ lastSet' = bool_text(v)
    /\ Suspend([op |-> "set_consent", consent |-> v])
    /\ reply' = NoReply
    /\ UNCHANGED <<schema, started, events, now>>

\* set_consent_route, second transaction: return {"consent": get_consent()}
set_consent_route_read(c) ==
    /\ Suspended(c)
    /\ c.op = "set_consent"
    /\ Resume(c)
    /\ Scope(TRUE)
    /\ reply' = [op |-> "set_consent", consent |-> c.consent,
                 body |-> [consent |-> get_consent(settings)]]
    /\ UNCHANGED <<schema, started, settings, events, now, lastSet>>

PendingInserts ==
    LET S == {c \in BagToSet(inflight) : c.op = "track"}
    IN  IF S = {} THEN 0
        ELSE BagCardinality([c \in S |-> inflight[c]])

\* track, first transaction: consent = get_consent(), then the two guards
track_gate(label) ==
    /\ started
    /\ Scope(TRUE)
    /\ IF track_admits(get_consent(settings), label)
       THEN /\ CanSuspend
            /\ Len(events) + PendingInserts < MaxEvents
            /\ Suspend([op |-> "track", label |-> label])
            /\ reply' = NoReply
       ELSE /\ reply' = [op |-> "track", label |-> label, body |-> [stored |-> FALSE]]
            /\ UNCHANGED inflight
    /\ UNCHANGED <<schema, started, settings, events, now, lastSet>>

\* track, second transaction: store_event_if_allowed(body.label, allow=True)
track_insert(c) ==
    /\ Suspended(c)
    /\ c.op = "track"
    /\ Resume(c)
    /\ events' = db_conn(events, store_event_if_allowed(events, c.label, TRUE, now), TRUE)
    /\ Scope(TRUE)
    /\ reply' = [op |-> "track", label |-> c.label, body |-> [stored |-> TRUE]]
    /\ UNCHANGED <<schema, started, settings, now, lastSet>>

\* summary with a period the Query pattern refuses: the framework answers
\* 422 and the handler body does not run
summary_rejected(raw) ==
    /\ started
    /\ ~period_valid(query_period(raw))
    /\ reply' = [op |-> "summary", status |-> 422]
    /\ UNCHANGED <<schema, started, settings, events, now, inflight, conns, lastSet>>

\* summary, first transaction: consent = get_consent()
summary_gate(raw) ==
    /\ started
    /\ period_valid(query_period(raw))
    /\ Scope(TRUE)
    /\ LET period == query_period(raw)
       IN  IF get_consent(settings)
           THEN /\ CanSuspend
                /\ Suspend([op |-> "summary", period |-> period])
                /\ reply' = NoReply
           ELSE /\ reply' = [op |-> "summary", period |-> period,
                             body |-> summary_body(<<<<0, 1>>, 0>>)]
                /\ UNCHANGED inflight
    /\ UNCHANGED <<schema, started, settings, events, now, lastSet>>

\* summary, second transaction: aggregate_summary(period)
summary_aggregate(c) ==
    /\ Suspended(c)
    /\ c.op = "summary"
    /\ Resume(c)
    /\ Scope(TRUE)
    /\ reply' = [op |-> "summary", period |-> c.period,
                 body |-> summary_body(aggregate_summary(events, now, c.period))]
    /\ UNCHANGED <<schema, started, settings, events, now, lastSet>>

Tick ==
    /\ \E t \in Instants : t > now /\ now' = t
    /\ reply' = NoReply
    /\ UNCHANGED <<schema, started, settings, events, inflight, conns, lastSet>>

Continuations ==
    [op : {"set_consent"}, consent : BOOLEAN]
        \cup [op : {"track"}, label : RequestLabels]
        \cup [op : {"summary"}, period : RequestPeriods]

\* the requests of well-formed clients: the 422 answer to a malformed
\* period changes nothing and is exercised under SpecStore
Next ==
    \/ init_db
    \/ health
    \/ get_consent_route
    \/ \E v \in BOOLEAN : set_consent_route_write(v)
    \/ \E c \in Continuations : set_consent_route_read(c)
    \/ \E label \in RequestLabels : track_gate(label)
    \/ \E c \in Continuations : track_insert(c)
    \/ \E raw \in Periods \cup {NoParam} : summary_gate(raw)
    \/ \E c \in Continuations : summary_aggregate(c)
    \/ Tick

Spec == Init /\ [][Next]_vars

----------------------------------------------------------------------------
(* A database file left by an earlier deployment: the tables exist (CREATE *)
(* TABLE IF NOT EXISTS keeps them as they are, without adding the CHECK    *)
(* constraint), the consent row may be missing, and the events table may   *)
(* hold labels outside the closed set.                                     *)

\* 'True' stands for a value written by other hands than set_consent
StoredSettings ==
    {NoSettings} \cup {[k \in {"consent"} |-> v] : v \in {"true", "false", "True"}}

StoredLogs ==
    UNION {[1..n -> RequestLabels] : n \in 0..MaxStored}

InitStore ==
    /\ schema = TRUE
    /\ started = TRUE
    /\ conns = 0
    /\ settings \in StoredSettings
    /\ \E labels \in StoredLogs :
          events = [i \in 1..Len(labels) |-> [id |-> i, ts |-> 0, label |-> labels[i]]]
    /\ now = 0
    /\ inflight = EmptyBag
    /\ reply = NoReply
    /\ lastSet = "none"

\* the operations applied one request at a time
OneAtATime == BagCardinality(inflight') <= 1

NextStore ==
    \/ init_db /\ OneAtATime
    \/ health /\ OneAtATime
    \/ get_consent_route /\ OneAtATime
    \/ \E v \in BOOLEAN : set_consent_route_write(v) /\ OneAtATime
    \/ \E c \in Continuations : set_consent_route_read(c) /\ OneAtATime
    \/ \E label \in RequestLabels : track_gate(label) /\ OneAtATime
    \/ \E c \in Continuations : track_insert(c) /\ OneAtATime
    \/ \E raw \in RequestPeriods \cup {NoParam} : summary_gate(raw) /\ OneAtATime
    \/ \E raw \in RequestPeriods \cup {NoParam} : summary_rejected(raw) /\ OneAtATime
    \/ \E c \in Continuations : summary_aggregate(c) /\ OneAtATime
    \/ Tick /\ OneAtATime

SpecStore == InitStore /\ [][NextStore]_vars

----------------------------------------------------------------------------
(* aggregate_summary on event logs whose timestamps lie one second before, *)
(* at, and one second after the start of the daily and the weekly window.  *)

WindowNow == WEEK + 1

WindowTimes ==
    {WindowNow - w + d : w \in {DAY, WEEK}, d \in {-1, 0, 1}}

\* rows in the order of their ids, stamped by a clock that does not go back
WindowLogs ==
    UNION {{rows \in [1..n -> [ts : WindowTimes, label : KnownLabels]] :
                \A i \in 1..n, j \in 1..n : i < j => rows[i].ts <= rows[j].ts} :
           n \in 0..MaxWindowRows}

InitWindow ==
    /\ schema = TRUE
    /\ started = TRUE
    /\ conns = 0
    /\ settings \in {[k \in {"consent"} |-> v] : v \in {"true", "false"}}
    /\ \E rows \in WindowLogs :
          events = [i \in 1..Len(rows) |->
                        [id |-> i, ts |-> rows[i].ts, label |-> rows[i].label]]
    /\ now = WindowNow
    /\ inflight = EmptyBag
    /\ reply = NoReply
    /\ lastSet = "none"

NextWindow ==
    \/ \E raw \in Periods \cup {NoParam} : summary_gate(raw)
    \/ \E c \in Continuations : summary_aggregate(c)

SpecWindow == InitWindow /\ [][NextWindow]_vars

----------------------------------------------------------------------------
(* Storage errors: the body of a db_conn scope raises (the database is     *)
(* locked, the disk is full, the file cannot be read). conn.commit() is    *)
(* skipped, conn.close() runs, and the exception leaves the handler, which *)
(* ends there; the framework answers with a server error.                  *)

ErrorReply(handler) == [op |-> "error", of |-> handler]

\* init_db raising; `created` tells whether the CREATE TABLE statements had
\* run before the error: they are executed outside a transaction and stay
\* in the file without conn.commit()
init_db_fails(created) ==
    /\ schema' = (schema \/ created)
    /\ settings' = db_conn(settings, insert_or_ignore(settings, "consent", "false"), FALSE)
    /\ Scope(FALSE)
    /\ reply' = ErrorReply("startup")
    /\ UNCHANGED <<started, events, now, inflight, lastSet>>

get_consent_route_fails ==
    /\ started
    /\ Scope(FALSE)
    /\ reply' = ErrorReply("get_consent")
    /\ UNCHANGED <<schema, started, settings, events, now, inflight, lastSet>>

\* set_consent raising: the handler never reaches its second transaction
set_consent_route_write_fails(v) ==
    /\ started
    /\ settings' = db_conn(settings, set_consent(settings, v), FALSE)
    /\ Scope(FALSE)
    /\ reply' = ErrorReply("set_consent")
    /\ UNCHANGED <<schema, started, events, now, inflight, lastSet>>

\* get_consent raising after set_consent has committed
set_consent_route_read_fails(c) ==
    /\ Suspended(c)
    /\ c.op = "set_consent"
    /\ Resume(c)
    /\ Scope(FALSE)
    /\ reply' = ErrorReply("set_consent")
    /\ UNCHANGED <<schema, started, settings, events, now, lastSet>>

track_gate_fails(label) ==
    /\ started
    /\ Scope(FALSE)
    /\ reply' = ErrorReply("track")
    /\ UNCHANGED <<schema, started, settings, events, now, inflight, lastSet>>

\* the INSERT of store_event_if_allowed raising: track does not reach its
\* return {"stored": True}
track_insert_fails(c) ==
    /\ Suspended(c)
    /\ c.op = "track"
    /\ Resume(c)
    /\ events' = db_conn(events, store_event_if_allowed(events, c.label, TRUE, now), FALSE)
    /\ Scope(FALSE)
    /\ reply' = ErrorReply("track")
    /\ UNCHANGED <<schema, started, settings, now, lastSet>>

summary_gate_fails(raw) ==
    /\ started
    /\ period_valid(query_period(raw))
    /\ Scope(FALSE)
    /\ reply' = ErrorReply("summary")
    /\ UNCHANGED <<schema, started, settings, events, now, inflight, lastSet>>

summary_aggregate_fails(c) ==
    /\ Suspended(c)
    /\ c.op = "summary"
    /\ Resume(c)
    /\ Scope(FALSE)
    /\ reply' = ErrorReply("summary")
    /\ UNCHANGED <<schema, started, settings, events, now, lastSet>>

\* one request at a time, on a database file that does not exist yet
NextFaulty ==
    \/ init_db /\ OneAtATime
    \/ health /\ OneAtATime
    \/ get_consent_route /\ OneAtATime
    \/ \E v \in BOOLEAN : set_consent_route_write(v) /\ OneAtATime
    \/ \E c \in Continuations : set_consent_route_read(c) /\ OneAtATime
    \/ \E label \in RequestLabels : track_gate(label) /\ OneAtATime
    \/ \E c \in Continuations : track_insert(c) /\ OneAtATime
    \/ \E raw \in Periods \cup {NoParam} : summary_gate(raw) /\ OneAtATime
    \/ \E c \in Continuations : summary_aggregate(c) /\ OneAtATime
    \/ Tick /\ OneAtATime
    \/ \E created \in BOOLEAN : init_db_fails(created)
    \/ get_consent_route_fails
    \/ \E v \in BOOLEAN : set_consent_route_write_fails(v)
    \/ \E c \in Continuations : set_consent_route_read_fails(c)
    \/ \E label \in RequestLabels : track_gate_fails(label)
    \/ \E c \in Continuations : track_insert_fails(c)
    \/ \E raw \in Periods \cup {NoParam} : summary_gate_fails(raw)
    \/ \E c \in Continuations : summary_aggregate_fails(c)

SpecFaulty == Init /\ [][NextFaulty]_vars

----------------------------------------------------------------------------
(* Vocabulary of the properties, stated on the stored data itself *)

\* the persisted consent value is the string 'true'
PersistedConsent ==
    "consent" \in DOMAIN settings /\ settings["consent"] = "true"

TrackReply(label, stored) ==
    [op |-> "track", label |-> label, body |-> [stored |-> stored]]

\* number of rows of ev with the given label and ts >= since
InWindow(ev, label, since) ==
    Cardinality({i \in 1..Len(ev) : ev[i].label = label /\ ev[i].ts >= since})

Since(t, period) == IF period = "weekly" THEN t - WEEK ELSE t - DAY

----------------------------------------------------------------------------
(* C1: a track request that reads consent = false appends no event and     *)
(* answers {stored: false}, whatever its label, valid labels included.     *)
C1_TrackWithoutConsent ==
    [][\A label \in RequestLabels :
          (track_gate(label) /\ ~PersistedConsent) =>
              /\ events' = events
              /\ reply' = TrackReply(label, FALSE)]_vars

C1_Witness ==
    /\ ~PersistedConsent
    /\ Len(events) > 0
    /\ reply = TrackReply("good", FALSE)

(* C2: an event is inserted only in a state where the persisted consent    *)
(* value is 'true', under every interleaving of track and set_consent.     *)
C2_InsertOnlyWhileConsented ==
    [][Len(events') > Len(events) => PersistedConsent]_vars

(* C3: a track request with a label outside {good, slouched} appends no    *)
(* event and answers {stored: false}, with consent true or false, and the  *)
(* per-label counts of every summary window stay what they were.           *)
C3_UnknownLabelRejected ==
    [][\A label \in RequestLabels \ {"good", "slouched"} :
          track_gate(label) =>
              /\ events' = events
              /\ reply' = TrackReply(label, FALSE)
              /\ \A period \in Periods, l \in RequestLabels :
                    InWindow(events', l, Since(now', period))
                        = InWindow(events, l, Since(now, period))]_vars

C3_Witness ==
    /\ PersistedConsent
    /\ Len(events) > 0
    /\ reply = TrackReply("sitting", FALSE)

(* C4: a track request that reads consent = true with a label in {good,    *)
(* slouched} goes on to insert; the insert appends exactly one row, with   *)
(* the request's label and the clock's value at insertion, keeps every     *)
(* earlier row, and answers {stored: true}.                                *)
C4_TrackStoresOneEvent ==
    [][/\ \A label \in {"good", "slouched"} :
            (track_gate(label) /\ PersistedConsent) =>
                /\ BagIn([op |-> "track", label |-> label], inflight')
                /\ BagCardinality(inflight') = BagCardinality(inflight) + 1
       /\ \A c \in Continuations :
            track_insert(c) =>
                /\ Len(events') = Len(events) + 1
                /\ SubSeq(events', 1, Len(events)) = events
                /\ events'[Len(events')].label = c.label
                /\ events'[Len(events')].ts = now
                /\ reply' = TrackReply(c.label, TRUE)]_vars

C4_Witness ==
    /\ reply = TrackReply("slouched", TRUE)
    /\ Len(events) >= 2
    /\ events[Len(events)] = [id |-> Len(events), ts |-> now, label |-> "slouched"]
    /\ events[1].ts < now

(* C5: from every state of the settings table (consent key absent, 'true'  *)
(* or 'false') and for every boolean v, once set_consent(v) has written,   *)
(* get_consent() returns v, and a second set_consent(v) changes nothing.   *)
C5_SetThenGet ==
    [][\A v \in BOOLEAN :
          set_consent_route_write(v) =>
              /\ get_consent(settings') = v
              /\ settings'["consent"] = (IF v THEN "true" ELSE "false")
              /\ set_consent(settings', v) = settings']_vars

C5_Witness ==
    /\ BagIn([op |-> "set_consent", consent |-> TRUE], inflight)
    /\ lastSet = "true"
    /\ get_consent(settings)

(* C6: POST /api/consent with body {consent: v} answers {consent: v},      *)
(* under every interleaving with other requests.                           *)
C6_EchoesOwnValue ==
    reply.op = "set_consent" => reply.body.consent = reply.consent

(* C7: init_db leaves an existing consent row and every stored event as    *)
(* they are, and creates the row with 'false' when it is missing; so after *)
(* any sequence of set_consent and init_db calls get_consent() returns the *)
(* value of the last set_consent, or false when there was none.            *)
C7_InitDbNeverOverwrites ==
    [][/\ init_db =>
            /\ events' = events
            /\ IF "consent" \in DOMAIN settings
               THEN settings' = settings
               ELSE settings' = [k \in {"consent"} |-> "false"]
       /\ schema' => (get_consent(settings') = (lastSet' = "true"))]_vars

C7_Witness ==
    /\ reply = [op |-> "startup"]
    /\ lastSet = "true"
    /\ PersistedConsent
    /\ Len(events) > 0

SummaryReply(period, ratio, total) ==
    [op |-> "summary", period |-> period,
     body |-> [uprightRatio |-> ratio, totalEvents |-> total]]

\* the fraction r has the value n / d
IsRatio(r, n, d) == r[2] > 0 /\ r[1] * d = n * r[2]

(* C8: summary computes the ratio from the two known labels only: a count  *)
(* the store returns for any other label is in neither uprightRatio nor    *)
(* totalEvents.                                                            *)
C8_OnlyKnownLabelsCounted ==
    [][\A c \in Continuations :
          summary_aggregate(c) =>
              LET G == InWindow(events, "good", Since(now, c.period))
                  S == InWindow(events, "slouched", Since(now, c.period))
              IN  /\ reply'.body.totalEvents = G + S
                  /\ IF G + S = 0
                     THEN reply'.body.uprightRatio = <<0, 1>>
                     ELSE IsRatio(reply'.body.uprightRatio, G, G + S)]_vars

(* C9: a summary request that reads consent = true aggregates, and with at *)
(* least one event in the window it returns totalEvents = G + S and        *)
(* uprightRatio = G / (G + S), G and S being the stored events with        *)
(* timestamp >= since labelled 'good' and 'slouched'.                      *)
C9_SummaryRatio ==
    [][/\ \A period \in Periods :
            (summary_gate(period) /\ PersistedConsent) =>
                BagIn([op |-> "summary", period |-> period], inflight')
       /\ \A c \in Continuations :
            summary_aggregate(c) =>
                LET G == InWindow(events, "good", Since(now, c.period))
                    S == InWindow(events, "slouched", Since(now, c.period))
                IN  G + S >= 1 =>
                        /\ reply'.op = "summary"
                        /\ reply'.period = c.period
                        /\ reply'.body.totalEvents = G + S
                        /\ IsRatio(reply'.body.uprightRatio, G, G + S)]_vars

\* three 'good' and one 'slouched' in the window: 0.75 of 4
C9_Witness ==
    /\ reply = SummaryReply("daily", <<3, 4>>, 4)
    /\ InWindow(events, "good", now - DAY) = 3
    /\ InWindow(events, "slouched", now - DAY) = 1

(* C10: summary answers exactly uprightRatio 0.0 and totalEvents 0 when it *)
(* reads consent = false, also with events inside the window, and when no  *)
(* event falls inside the window.                                          *)
C10_ZeroSummary ==
    [][/\ \A period \in Periods :
            (summary_gate(period) /\ ~PersistedConsent) =>
                reply' = SummaryReply(period, <<0, 1>>, 0)
       /\ \A c \in Continuations :
            (/\ summary_aggregate(c)
             /\ \A i \in 1..Len(events) : events[i].ts < Since(now, c.period)) =>
                reply' = SummaryReply(c.period, <<0, 1>>, 0)]_vars

C10_Witness ==
    /\ ~PersistedConsent
    /\ \E i \in 1..Len(events) : events[i].ts >= now - DAY
    /\ reply = SummaryReply("daily", <<0, 1>>, 0)

\* consent read as true, a log that is not empty, nothing in the window
C10_WitnessEmptyWindow ==
    /\ PersistedConsent
    /\ Len(events) > 0
    /\ \A i \in 1..Len(events) : events[i].ts < now - DAY
    /\ reply = SummaryReply("daily", <<0, 1>>, 0)

(* C11: the window reaches back from the current time and includes its     *)
(* first second: a daily summary counts exactly the events with timestamp  *)
(* >= now - 86400 and a weekly one exactly those with timestamp >= now -   *)
(* 604800, so an event at now - 86400 - 1 is left out and events at now -  *)
(* 86400 and now - 86400 + 1 are counted.                                  *)
C11_WindowInclusive ==
    [][\A c \in Continuations :
          summary_aggregate(c) =>
              LET bound == IF c.period = "daily" THEN now - 86400
                           ELSE now - 604800
                  inside == {i \in 1..Len(events) : events[i].ts >= bound}
                  good == {i \in inside : events[i].label = "good"}
              IN  /\ c.period \in {"daily", "weekly"}
                  /\ reply'.body.totalEvents = Cardinality(inside)
                  /\ inside # {} =>
                        IsRatio(reply'.body.uprightRatio,
                                Cardinality(good), Cardinality(inside))]_vars

\* one event a second too old, one on the bound, one a second inside
C11_Witness ==
    /\ Len(events) = 3
    /\ events[1].ts = now - 86400 - 1 /\ events[1].label = "good"
    /\ events[2].ts = now - 86400 /\ events[2].label = "slouched"
    /\ events[3].ts = now - 86400 + 1 /\ events[3].label = "good"
    /\ reply = SummaryReply("daily", <<1, 2>>, 2)

(* C12: in every reachable state every row of the event log carries a      *)
(* label of the closed set {good, slouched}.                               *)
C12_LabelsClosed ==
    \A i \in 1..Len(events) : events[i].label \in {"good", "slouched"}

\* both labels stored, and a request with a third label just refused
C12_Witness ==
    /\ PersistedConsent
    /\ \E i \in 1..Len(events) : events[i].label = "good"
    /\ \E i \in 1..Len(events) : events[i].label = "slouched"
    /\ reply = TrackReply("sitting", FALSE)

(* C13: the event log is append-only: no step removes or changes a stored  *)
(* event, and every event a step adds gets an id strictly greater than the *)
(* id of every event already stored.                                       *)
C13_AppendOnly ==
    [][/\ Len(events') >= Len(events)
       /\ \A i \in 1..Len(events) : events'[i] = events[i]
       /\ \A j \in (Len(events) + 1)..Len(events') :
             \A i \in 1..Len(events) : events'[j].id > events[i].id]_vars

\* a third event appended behind two stored ones, at a later time
C13_Witness ==
    /\ Len(events) = 3
    /\ reply = TrackReply(events[3].label, TRUE)
    /\ events[3].id > events[2].id /\ events[2].id > events[1].id
    /\ events[3].ts > events[1].ts

(* C14: once init_db has run, a step that changes the persisted consent    *)
(* value is the write of POST /api/consent and no step of track, summary,  *)
(* GET /api/consent, GET /api/health or a repeated init_db; a step that    *)
(* changes the event log is no step of summary, GET /api/consent,          *)
(* GET /api/health or POST /api/consent.                                   *)
C14_Frames ==
    [][\/ settings' = settings /\ events' = events
       \/ /\ (started /\ settings' # settings) =>
                /\ \E v \in BOOLEAN : set_consent_route_write(v)
                /\ ~ \E label \in RequestLabels : track_gate(label)
                /\ ~ \E c \in Continuations : track_insert(c)
                /\ ~ \E raw \in RequestPeriods \cup {NoParam} :
                        summary_gate(raw) \/ summary_rejected(raw)
                /\ ~ \E c \in Continuations : summary_aggregate(c)
                /\ ~ get_consent_route
                /\ ~ health
                /\ ~ init_db
          /\ (events' # events) =>
                /\ ~ \E raw \in RequestPeriods \cup {NoParam} :
                        summary_gate(raw) \/ summary_rejected(raw)
                /\ ~ \E c \in Continuations : summary_aggregate(c)
                /\ ~ get_consent_route
                /\ ~ health
                /\ ~ \E v \in BOOLEAN : set_consent_route_write(v)
                /\ ~ \E c \in Continuations : set_consent_route_read(c)]_vars

\* consent withdrawn by POST /api/consent while two events stay logged
C14_Witness ==
    /\ reply = [op |-> "set_consent", consent |-> FALSE, body |-> [consent |-> FALSE]]
    /\ lastSet = "false"
    /\ ~PersistedConsent
    /\ Len(events) = 2
    /\ BagCardinality(inflight) = 0

(* C16: in every state reached after init_db the settings table holds      *)
(* exactly one row, the row of the key 'consent', with the value 'true' or *)
(* 'false'; the row is never missing again.                                *)
C16_OneConsentRow ==
    started =>
        /\ DOMAIN settings = {"consent"}
        /\ settings["consent"] \in {"true", "false"}

\* the row rewritten to 'true' and read back by GET /api/consent
C16_Witness ==
    /\ started
    /\ DOMAIN settings = {"consent"}
    /\ settings["consent"] = "true"
    /\ reply = [op |-> "get_consent", body |-> [consent |-> TRUE]]

\* the fraction r lies in [0, 1], total in [0, size], and r > 0 needs total > 0
WithinBounds(r, total, size) ==
    /\ r[2] > 0 /\ 0 <= r[1] /\ r[1] <= r[2]
    /\ 0 <= total /\ total <= size
    /\ r[1] > 0 => total > 0

(* C19: in every reachable state, for either consent value and either      *)
(* period, the summary result has 0 <= uprightRatio <= 1 and               *)
(* 0 <= totalEvents <= number of events in the log, and a positive         *)
(* uprightRatio comes with a positive totalEvents; so does every summary   *)
(* answer given.                                                           *)
C19_SummaryBounds ==
    /\ \A period \in Periods :
          LET result == IF PersistedConsent
                        THEN aggregate_summary(events, now, period)
                        ELSE <<<<0, 1>>, 0>>
          IN  WithinBounds(result[1], result[2], Len(events))
    /\ (reply.op = "summary" /\ "body" \in DOMAIN reply) =>
          WithinBounds(reply.body.uprightRatio, reply.body.totalEvents, Len(events))

\* four events logged, three of them inside the daily window, one good
C19_Witness ==
    /\ Len(events) = 4
    /\ reply = SummaryReply("daily", <<1, 3>>, 3)

(* C17: get_consent is false when the settings table has no 'consent' row  *)
(* and true exactly when the stored value is the string 'true'; while the  *)
(* row is absent a track request stores nothing and answers                *)
(* {stored: false}, and a summary request answers (0.0, 0).                *)
C17_AbsentKeyIsNoConsent ==
    [][/\ get_consent_route => (reply'.body.consent <=> PersistedConsent)
       /\ \A label \in RequestLabels :
            (track_gate(label) /\ "consent" \notin DOMAIN settings) =>
                /\ reply' = TrackReply(label, FALSE)
                /\ events' = events
                /\ inflight' = inflight
       /\ (\E c \in Continuations : track_insert(c)) => PersistedConsent
       /\ \A raw \in Periods \cup {NoParam} :
            (summary_gate(raw) /\ "consent" \notin DOMAIN settings) =>
                /\ reply' = SummaryReply(query_period(raw), <<0, 1>>, 0)
                /\ inflight' = inflight]_vars

\* GET /api/consent answered on a settings table without the row
C17_Witness ==
    /\ "consent" \notin DOMAIN settings
    /\ Len(events) > 0
    /\ reply = [op |-> "get_consent", body |-> [consent |-> FALSE]]

\* GET /api/consent answered on a stored value that is not exactly 'true'
C17_WitnessOtherValue ==
    /\ "consent" \in DOMAIN settings
    /\ settings["consent"] = "True"
    /\ reply = [op |-> "get_consent", body |-> [consent |-> FALSE]]

(* C18: a summary request whose period is neither 'daily' nor 'weekly' is  *)
(* answered with the validation failure alone: it reads and changes        *)
(* nothing, no aggregate is computed for it, and every summary answer that *)
(* carries an aggregate is one for 'daily' or 'weekly'; a request without  *)
(* the parameter is handled as a request for 'daily'.                      *)
C18_PeriodValidated ==
    [][/\ \A raw \in RequestPeriods \ {"daily", "weekly"} :
            /\ ~summary_gate(raw)
            /\ summary_rejected(raw) =>
                  /\ reply' = [op |-> "summary", status |-> 422]
                  /\ UNCHANGED <<settings, events, inflight>>
       /\ (reply'.op = "summary" /\ "body" \in DOMAIN reply') =>
            reply'.period \in {"daily", "weekly"}
       /\ \A c \in BagToSet(inflight') :
            c.op = "summary" => c.period \in {"daily", "weekly"}
       /\ ~summary_rejected(NoParam)
       /\ summary_gate(NoParam) <=> summary_gate("daily")]_vars

\* period=monthly refused on a store with consent given and events logged
C18_Witness ==
    /\ reply = [op |-> "summary", status |-> 422]
    /\ PersistedConsent
    /\ Len(events) > 0
    /\ BagCardinality(inflight) = 0

(* C15: every db_conn scope closes its connection on every exit path and   *)
(* commits only when its body ends without an error; a step whose scope    *)
(* raises a storage error leaves the whole stored state (tables, settings  *)
(* rows, event rows) as it was and answers with the error, so a track      *)
(* request whose insert fails does not answer {stored: true}.              *)
C15_FailedScopeCommitsNothing ==
    [][/\ conns' = 0
       /\ reply'.op = "error" => UNCHANGED <<schema, settings, events>>
       /\ \A c \in Continuations :
            track_insert_fails(c) => reply' # TrackReply(c.label, TRUE)]_vars

\* what holds of C15: the rows of both tables are as before the failed
\* scope, the connection is closed, and the failed track answers no success
C15_RowsRolledBack ==
    [][/\ conns' = 0
       /\ reply'.op = "error" => UNCHANGED <<settings, events>>
       /\ \A c \in Continuations :
            track_insert_fails(c) => reply' = ErrorReply("track")]_vars

\* a consented insert failed on a log that already holds an event
C15_WitnessFailedInsert ==
    /\ reply = ErrorReply("track")
    /\ PersistedConsent
    /\ Len(events) = 1
    /\ BagCardinality(inflight) = 0

\* the startup failed on a new file and left the tables behind
C15_WitnessTablesLeft ==
    /\ reply = ErrorReply("startup")
    /\ schema
    /\ ~started

====
